---------------------------- MODULE Spec2Model ----------------------------
(***************************************************************************)
(* A model of the pickle decoder of knsd/pickle (src/src/machine.rs):      *)
(* the stack machine `Machine` (stack, memo, marker), its per-opcode       *)
(* handler `execute`, the operand readers and the driver `unpickle`.       *)
(*                                                                         *)
(* The byte source is modelled per step: every step draws the opcode byte  *)
(* and the bytes that follow it from small sets.  A byte string is a       *)
(* sequence of numbers 0..255.  Rc<RefCell<Vec<..>>> cells live in `heap`; *)
(* a List, Tuple or Dict value holds the index of its cell.                *)
(***************************************************************************)
EXTENDS Integers, Sequences, FiniteSets, TLC

(***************************************************************************)
(* Opcode bytes (the constants of module `opcodes`, matched by `execute`). *)
(***************************************************************************)
PROTO == 128
STOP == 46
INT == 73
BININT == 74
BININT1 == 75
BININT2 == 77
LONG == 76
LONG1 == 138
LONG4 == 139
STRING_OP == 83
BINSTRING == 84
SHORT_BINSTRING == 85
NONE == 78
NEWTRUE == 136
NEWFALSE == 137
UNICODE == 86
BINUNICODE == 88
FLOAT == 70
BINFLOAT == 71
EMPTY_LIST == 93
APPEND == 97
APPENDS == 101
LIST == 108
EMPTY_TUPLE == 41
TUPLE == 116
TUPLE1 == 133
TUPLE2 == 134
TUPLE3 == 135
EMPTY_DICT == 125
DICT == 100
SETITEM == 115
SETITEMS == 117
POP == 48
DUP == 50
MARK == 40
POP_MARK == 49
GET == 103
BINGET == 104
LONG_BINGET == 106
PUT == 112
BINPUT == 113
LONG_BINPUT == 114
\* Class-instance opcodes: read by read_opcode (opcode.rs), no arm in execute.
EXT1 == 130
EXT2 == 131
EXT4 == 132
GLOBAL == 99
REDUCE == 82
BUILD == 98
INST == 105
OBJ == 111
NEWOBJ == 129
PERSID == 80
BINPERSID == 81

\* The opcode bytes that have an arm in the match of `execute`.
MatchedOpcodes ==
    { PROTO, STOP, INT, BININT, BININT1, BININT2, LONG, LONG1, LONG4,
      STRING_OP, BINSTRING, SHORT_BINSTRING, NONE, NEWTRUE, NEWFALSE,
      UNICODE, BINUNICODE, FLOAT, BINFLOAT, EMPTY_LIST, APPEND, APPENDS,
      LIST, EMPTY_TUPLE, TUPLE, TUPLE1, TUPLE2, TUPLE3, EMPTY_DICT, DICT,
      SETITEM, SETITEMS, POP, DUP, MARK, POP_MARK, GET, BINGET,
      LONG_BINGET, PUT, BINPUT, LONG_BINPUT }

\* The opcodes read_opcode decodes that `execute` has no arm for.
ClassOpcodes ==
    { GLOBAL, REDUCE, BUILD, INST, OBJ, NEWOBJ, PERSID, BINPERSID,
      EXT1, EXT2, EXT4 }

Byte == 0 .. 255

(***************************************************************************)
(* Values (enum Value as machine.rs builds it).  Every value is a record   *)
(* of one shape: `n` is the integer payload (Bool: 0/1; List, Tuple, Dict: *)
(* the index of the shared cell in `heap`), `s` the byte payload.          *)
(***************************************************************************)
VNone == [tag |-> "None", n |-> 0, s |-> <<>>]
VBool(b) == [tag |-> "Bool", n |-> IF b THEN 1 ELSE 0, s |-> <<>>]
VInt(i) == [tag |-> "Int", n |-> i, s |-> <<>>]
VLong(i) == [tag |-> "Long", n |-> i, s |-> <<>>]
VFloat(bytes) == [tag |-> "Float", n |-> 0, s |-> bytes]
VString(bytes) == [tag |-> "String", n |-> 0, s |-> bytes]
VUnicode(bytes) == [tag |-> "Unicode", n |-> 0, s |-> bytes]
VList(ref) == [tag |-> "List", n |-> ref, s |-> <<>>]
VTuple(ref) == [tag |-> "Tuple", n |-> ref, s |-> <<>>]
VDict(ref) == [tag |-> "Dict", n |-> ref, s |-> <<>>]

IsComposite(v) == v.tag \in {"List", "Tuple", "Dict"}

\* Value::clone: a scalar is copied, a composite clones the Rc handle, so
\* the clone names the same cell.
Clone(v) == v


(***************************************************************************)
(* Sequence helpers.                                                       *)
(***************************************************************************)
Last(s) == s[Len(s)]
Front(s) == SubSeq(s, 1, Len(s) - 1)
\* Vec::split_off(at): the prefix that stays and the suffix returned.
Prefix(s, at) == SubSeq(s, 1, at)
Suffix(s, at) == SubSeq(s, at + 1, Len(s))
\* Vec::remove(index) with a 0-based index < len.
RemoveAt(s, index) == SubSeq(s, 1, index) \o SubSeq(s, index + 2, Len(s))

\* Results of the readers: `err` is "" on Ok and the Error kind otherwise.
Ok(v) == [err |-> "", val |-> v]
Err(kind) == [err |-> kind, val |-> 0]

(***************************************************************************)
(* Fixed-width reads (byteorder::ReadBytesExt): a short read is            *)
(* Error::Read.  The numbers stay inside 32 bits.                          *)
(***************************************************************************)
read_u8(bytes) ==
    IF Len(bytes) < 1 THEN Err("Read") ELSE Ok(bytes[1])

read_u16_le(bytes) ==
    IF Len(bytes) < 2 THEN Err("Read") ELSE Ok(bytes[1] + 256 * bytes[2])

read_i32_le(bytes) ==
    IF Len(bytes) < 4 THEN Err("Read")
    ELSE Ok(bytes[1] + 256 * bytes[2] + 65536 * bytes[3]
            + 16777216 * (IF bytes[4] >= 128 THEN bytes[4] - 256 ELSE bytes[4]))

\* read_exact(rd, buf) with buf of `length` bytes, `bytes` being what the
\* source still holds: a short read is Error::Io.
read_exact(bytes, length) ==
    IF Len(bytes) < length THEN Err("Io") ELSE Ok(SubSeq(bytes, 1, length))

\* read_until_newline taking the end of the source for a newline.
read_until_newline_or_end(bytes) ==
    IF Len(bytes) >= 1 /\ Last(bytes) = 10
    THEN Ok(Front(bytes))
    ELSE Ok(bytes)

\* read_until_newline: `bytes` is what read_until('\n') returned, the
\* newline included when one was found.
read_until_newline(bytes) ==
    IF Len(bytes) >= 1 /\ Last(bytes) = 10
    THEN Ok(Front(bytes))
    ELSE Err("InvalidString")

(***************************************************************************)
(* Decimal parsers.                                                        *)
(***************************************************************************)
IsDigit(c) == c >= 48 /\ c <= 57

RECURSIVE DigitsValue(_, _)
\* The value of a string of decimal digits, most significant first.
DigitsValue(digits, acc) ==
    IF digits = <<>> THEN acc
    ELSE DigitsValue(Tail(digits), acc * 10 + (Head(digits) - 48))

AllDigits(s) == \A i \in 1 .. Len(s) : IsDigit(s[i])

\* i64::from_ascii: an optional sign, then at least one decimal digit.
from_ascii_i64(s) ==
    LET signed == Len(s) >= 1 /\ s[1] \in {43, 45}
        digits == IF signed THEN Tail(s) ELSE s
    IN  IF digits = <<>> \/ ~AllDigits(digits) THEN Err("InvalidInt")
        ELSE IF signed /\ s[1] = 45 THEN Ok(0 - DigitsValue(digits, 0))
        ELSE Ok(DigitsValue(digits, 0))

\* BooleanOrInt, as a record: Boolean(b) or Int(n).
BoolOf(b) == [kind |-> "Boolean", n |-> IF b THEN 1 ELSE 0]
IntOf(n) == [kind |-> "Int", n |-> n]

\* read_decimal_int taking the booleans from the parsed number, not from the
\* two-byte literals.
read_decimal_int_by_value(bytes) ==
    LET s == read_until_newline(bytes)
    IN  IF s.err # "" THEN s
        ELSE LET i == from_ascii_i64(s.val)
             IN  IF i.err # "" THEN i
                 ELSE IF i.val = 0 THEN Ok(BoolOf(FALSE))
                 ELSE IF i.val = 1 THEN Ok(BoolOf(TRUE))
                 ELSE Ok(IntOf(i.val))

read_decimal_int(bytes) ==
    LET s == read_until_newline(bytes)
    IN  IF s.err # "" THEN s
        ELSE IF s.val = <<48, 48>> THEN Ok(BoolOf(FALSE))
        ELSE IF s.val = <<48, 49>> THEN Ok(BoolOf(TRUE))
        ELSE LET i == from_ascii_i64(s.val)
             IN  IF i.err # "" THEN i ELSE Ok(IntOf(i.val))

\* BigInt::parse_bytes(_, 10): an optional '-', then at least one digit.
parse_bytes(s) ==
    LET neg == Len(s) >= 1 /\ s[1] = 45
        digits == IF neg THEN Tail(s) ELSE s
    IN  IF digits = <<>> \/ ~AllDigits(digits) THEN Err("InvalidLong")
        ELSE IF neg THEN Ok(0 - DigitsValue(digits, 0))
        ELSE Ok(DigitsValue(digits, 0))

\* The operand of LONG taken only with its trailing 'L'.
read_decimal_long_requiring_L(bytes) ==
    LET s == read_until_newline(bytes)
    IN  IF s.err # "" THEN s
        ELSE IF s.val = <<>> \/ Last(s.val) # 76 THEN Err("InvalidLong")
        ELSE parse_bytes(Front(s.val))

read_decimal_long(bytes) ==
    LET s == read_until_newline(bytes)
    IN  IF s.err # "" THEN s
        ELSE IF s.val = <<>> THEN Err("InvalidLong")
        ELSE IF Last(s.val) = 76 THEN parse_bytes(Front(s.val))
        ELSE parse_bytes(s.val)

RECURSIVE from_bytes_le(_)
\* BigInt::from_bytes_le(Sign::Plus, buf): the unsigned little-endian value.
from_bytes_le(buf) ==
    IF buf = <<>> THEN 0 ELSE Head(buf) + 256 * from_bytes_le(Tail(buf))

RECURSIVE Pow2(_)
Pow2(k) == IF k = 0 THEN 1 ELSE 2 * Pow2(k - 1)

\* read_long without the subtraction for a set top bit.
read_long_unsigned(bytes, length) ==
    LET buf == read_exact(bytes, length)
    IN  IF buf.err # "" THEN buf
        ELSE IF buf.val = <<>> THEN Err("InvalidLong")
        ELSE Ok(from_bytes_le(buf.val))

\* read_long giving 0 for no bytes.
read_long_zero_for_empty(bytes, length) ==
    LET buf == read_exact(bytes, length)
    IN  IF buf.err # "" THEN buf
        ELSE IF buf.val = <<>> THEN Ok(0)
        ELSE IF Last(buf.val) > 127
             THEN Ok(from_bytes_le(buf.val) - Pow2(length * 8))
             ELSE Ok(from_bytes_le(buf.val))

\* read_long(rd, length): `length` is already a usize.
read_long(bytes, length) ==
    LET buf == read_exact(bytes, length)
    IN  IF buf.err # "" THEN buf
        ELSE IF buf.val = <<>> THEN Err("InvalidLong")
        ELSE IF Last(buf.val) > 127
             THEN Ok(from_bytes_le(buf.val) - Pow2(length * 8))
             ELSE Ok(from_bytes_le(buf.val))

(***************************************************************************)
(* The escape decoder (string.rs).                                         *)
(***************************************************************************)
\* The value of an ASCII digit in `radix` (8 or 16), -1 when it is none.
DigitIn(c, radix) ==
    LET d == IF c >= 48 /\ c <= 57 THEN c - 48
             ELSE IF c >= 97 /\ c <= 102 THEN c - 87
             ELSE IF c >= 65 /\ c <= 70 THEN c - 55
             ELSE -1
    IN  IF d < radix THEN d ELSE -1

\* Values above every Unicode scalar are kept as this one number (0x110000):
\* from_u32 refuses them all alike.
AboveScalars == 1114112

RECURSIVE RadixValue(_, _, _)
RadixValue(digits, radix, acc) ==
    IF digits = <<>> THEN acc
    ELSE LET next == acc * radix + DigitIn(Head(digits), radix)
         IN  RadixValue(Tail(digits), radix,
                        IF next > AboveScalars THEN AboveScalars ELSE next)

\* uN::from_ascii_radix: an optional '+', then at least one digit of the
\* radix; the widths used here cannot overflow on the digits they are given.
from_ascii_radix(s, radix) ==
    LET digits == IF Len(s) >= 1 /\ s[1] = 43 THEN Tail(s) ELSE s
    IN  IF digits = <<>> \/ \E i \in 1 .. Len(digits) : DigitIn(digits[i], radix) < 0
        THEN Err("InvalidValue")
        ELSE Ok(RadixValue(digits, radix, 0))

\* char::from_u32: surrogates and values above 0x10FFFF are no scalar.
IsScalar(cp) == cp >= 0 /\ cp <= 1114111 /\ ~(cp >= 55296 /\ cp <= 57343)

\* push_char!: the UTF-8 encoding of a scalar.
Utf8(cp) ==
    IF cp < 128 THEN << cp >>
    ELSE IF cp < 2048 THEN << 192 + (cp \div 64), 128 + (cp % 64) >>
    ELSE IF cp < 65536
         THEN << 224 + (cp \div 4096), 128 + ((cp \div 64) % 64), 128 + (cp % 64) >>
    ELSE << 240 + (cp \div 262144), 128 + ((cp \div 4096) % 64),
            128 + ((cp \div 64) % 64), 128 + (cp % 64) >>

\* unicode_names::character, on the names the model's inputs use.
character(name) ==
    IF name = << 83, 78, 79, 87, 77, 65, 78 >> THEN Ok(9731)   \* SNOWMAN
    ELSE Err("InvalidValue")

IsOctal(c) == c >= 48 /\ c <= 55

\* The index (0-based) of the first '}' at or after i, Len(s) when none.
RECURSIVE FindBrace(_, _)
FindBrace(s, i) ==
    IF i >= Len(s) THEN Len(s)
    ELSE IF s[i + 1] = 125 THEN i
    ELSE FindBrace(s, i + 1)

\* An octal escape's value cut off at the byte it stands for.
octal_byte_truncated(value) == value % 256

\* The byte an octal escape pushes: `if value > 255 {255} else {value as u8}`.
octal_byte(value) == IF value > 255 THEN 255 ELSE value

RECURSIVE unescape_loop(_, _, _, _)
\* The loop of unescape: i is the code's 0-based read position.
unescape_loop(s, unicode, i, buf) ==
    IF i >= Len(s) THEN Ok(buf)
    ELSE IF s[i + 1] # 92 THEN unescape_loop(s, unicode, i + 1, Append(buf, s[i + 1]))
    ELSE IF i + 1 >= Len(s) THEN Err("UnexpectedEnd")
    ELSE
      LET marker == s[i + 2]
          j == i + 2
          rest == Len(s) - j
          simple == [ c \in {92, 39, 34} |-> c ] @@
                    (97 :> 7) @@ (98 :> 8) @@ (102 :> 12) @@ (110 :> 10) @@
                    (114 :> 13) @@ (116 :> 9) @@ (118 :> 11)
      IN
      IF marker = 10 THEN unescape_loop(s, unicode, j, buf)
      ELSE IF marker \in DOMAIN simple
           THEN unescape_loop(s, unicode, j, Append(buf, simple[marker]))
      ELSE IF marker = 120 THEN
           IF rest < 2 THEN Err("UnexpectedEnd")
           ELSE LET v == from_ascii_radix(SubSeq(s, j + 1, j + 2), 16)
                IN  IF v.err # "" THEN v
                    ELSE unescape_loop(s, unicode, j + 2, Append(buf, v.val))
      ELSE IF IsOctal(marker) THEN
           LET two == rest >= 1 /\ IsOctal(s[j + 1])
               three == two /\ rest >= 2 /\ IsOctal(s[j + 2])
               n == IF three THEN 3 ELSE IF two THEN 2 ELSE 1
               v == from_ascii_radix(SubSeq(s, j, j + n - 1), 8)
           IN  IF v.err # "" THEN v
               ELSE unescape_loop(s, unicode, j + n - 1,
                                  Append(buf, octal_byte(v.val)))
      ELSE IF marker = 117 /\ unicode THEN
           IF rest < 4 THEN Err("UnexpectedEnd")
           ELSE LET v == from_ascii_radix(SubSeq(s, j + 1, j + 4), 16)
                IN  IF v.err # "" THEN v
                    ELSE IF ~IsScalar(v.val) THEN Err("InvalidValue")
                    ELSE unescape_loop(s, unicode, j + 4, buf \o Utf8(v.val))
      ELSE IF marker = 85 /\ unicode THEN
           IF rest < 8 THEN Err("UnexpectedEnd")
           ELSE LET v == from_ascii_radix(SubSeq(s, j + 1, j + 8), 16)
                IN  IF v.err # "" THEN v
                    ELSE IF ~IsScalar(v.val) THEN Err("InvalidValue")
                    ELSE unescape_loop(s, unicode, j + 8, buf \o Utf8(v.val))
      ELSE IF marker = 78 /\ unicode THEN
           IF rest < 1 THEN Err("UnexpectedEnd")
           ELSE IF s[j + 1] # 123 THEN Err("InvalidValue")
           ELSE LET close == FindBrace(s, j + 1)
                IN  IF close >= Len(s) THEN Err("UnexpectedEnd")
                    ELSE LET ch == character(SubSeq(s, j + 2, close))
                         IN  IF ch.err # "" THEN ch
                             ELSE unescape_loop(s, unicode, close + 1,
                                                buf \o Utf8(ch.val))
      ELSE unescape_loop(s, unicode, j, buf \o << 92, marker >>)

\* unescape decoding \u, \U and \N whatever the mode asked for.
unescape_in_unicode_mode(s, unicode) == unescape_loop(s, TRUE, 0, <<>>)

unescape(s, unicode) == unescape_loop(s, unicode, 0, <<>>)

(***************************************************************************)
(* String::from_utf8: whether the bytes are well-formed UTF-8.             *)
(***************************************************************************)
IsCont(c) == c >= 128 /\ c <= 191

RECURSIVE IsUtf8(_)
IsUtf8(b) ==
    IF b = <<>> THEN TRUE
    ELSE LET c == b[1]
             n == Len(b)
         IN  IF c < 128 THEN IsUtf8(Tail(b))
             ELSE IF c >= 194 /\ c <= 223
                  THEN n >= 2 /\ IsCont(b[2]) /\ IsUtf8(SubSeq(b, 3, n))
             ELSE IF c >= 224 /\ c <= 239
                  THEN /\ n >= 3
                       /\ IsCont(b[2]) /\ IsCont(b[3])
                       /\ (c = 224 => b[2] >= 160)
                       /\ (c = 237 => b[2] <= 159)
                       /\ IsUtf8(SubSeq(b, 4, n))
             ELSE IF c >= 240 /\ c <= 244
                  THEN /\ n >= 4
                       /\ IsCont(b[2]) /\ IsCont(b[3]) /\ IsCont(b[4])
                       /\ (c = 240 => b[2] >= 144)
                       /\ (c = 244 => b[2] <= 143)
                       /\ IsUtf8(SubSeq(b, 5, n))
             ELSE FALSE

\* The operand of STRING taken only between two quotes of one kind.
read_bracketed_string_quoted(bytes) ==
    LET s == read_until_newline(bytes)
    IN  IF s.err # "" THEN s
        ELSE IF Len(s.val) < 2 \/ s.val[1] # Last(s.val) \/ s.val[1] \notin { 34, 39 }
             THEN Err("InvalidString")
        ELSE unescape(SubSeq(s.val, 2, Len(s.val) - 1), FALSE)

\* read_bracketed_string: the operand of STRING.
read_bracketed_string(bytes) ==
    LET s == read_until_newline(bytes)
    IN  IF s.err # "" THEN s
        ELSE IF Len(s.val) < 2 THEN Err("InvalidString")
        ELSE unescape(SubSeq(s.val, 2, Len(s.val) - 1), FALSE)

\* f64::from_ascii on the literals the model's inputs use; a Float value
\* keeps the 8 big-endian bytes of its f64.
from_ascii_f64(s) ==
    IF s = << 49, 46, 53 >> THEN Ok(<< 63, 248, 0, 0, 0, 0, 0, 0 >>)   \* "1.5"
    ELSE IF s = << 48 >> THEN Ok(<< 0, 0, 0, 0, 0, 0, 0, 0 >>)          \* "0"
    ELSE Err("InvalidFloat")

(***************************************************************************)
(* The machine (struct Machine) and the decode in progress.                *)
(***************************************************************************)
VARIABLES
    stack,      \* Machine.stack: Vec<Value>
    memo,       \* Machine.memo: HashMap<usize, Value>, a function on its keys
    marker,     \* Machine.marker: Option<usize>; <<>> is None, <<at>> Some(at)
    heap,       \* the Rc<RefCell<Vec<..>>> cells of List, Tuple, Dict values
    status,     \* "running", "halted" (STOP executed), "done", "error", "panic"
    error,      \* the Error returned, NoError while there is none
    result,     \* what unpickle returned: <<>> or <<value>>
    opcode,     \* the opcode byte the last step read, -1 before the first
    operand,    \* the bytes the last step had after its opcode byte
    fuel        \* how many more opcodes the source may hold

vars == << stack, memo, marker, heap, status, error, result, opcode, operand, fuel >>

NoError == [kind |-> "NoError", arg |-> 0, cause |-> ""]

\* The longest opcode streams the specifications below decode.
MaxSteps == 3

\* Machine::new() and the state of unpickle before its first step.
Start(n) ==
    /\ stack = <<>>
    /\ memo = <<>>
    /\ marker = <<>>
    /\ heap = <<>>
    /\ status = "running"
    /\ error = NoError
    /\ result = <<>>
    /\ opcode = -1
    /\ operand = <<>>
    /\ fuel = n

Init == Start(MaxSteps)

\* The loop of unpickle going on after a step returned Err (the result of
\* execute matched against Ok(true) only).
FetchAfterError(op, bytes) ==
    /\ status \in { "running", "error" }
    /\ fuel > 0
    /\ fuel' = fuel - 1
    /\ opcode' = op
    /\ operand' = bytes

\* rd.read_u8() returned the opcode byte `op`; `bytes` follow it.
Fetch(op, bytes) ==
    /\ status = "running"
    /\ fuel > 0
    /\ fuel' = fuel - 1
    /\ opcode' = op
    /\ operand' = bytes

\* execute returns Ok(false) with the machine as given.
Continue(stk, mm, mk, hp) ==
    /\ stack' = stk
    /\ memo' = mm
    /\ marker' = mk
    /\ heap' = hp
    /\ status' = "running"
    /\ UNCHANGED << error, result >>

\* execute returns Err(kind(arg)); `stk` is the stack at that point.
FailWith(kind, arg, cause, stk) ==
    /\ stack' = stk
    /\ status' = "error"
    /\ error' = [kind |-> kind, arg |-> arg, cause |-> cause]
    /\ UNCHANGED << memo, marker, heap, result >>

Fail(kind, stk) == FailWith(kind, 0, "", stk)

\* A panic inside execute (index out of range, capacity overflow): the
\* decoder is aborted and no Result is returned.
Panic(stk, hp) ==
    /\ stack' = stk
    /\ heap' = hp
    /\ status' = "panic"
    /\ UNCHANGED << memo, marker, error, result >>

Push(v) == Continue(Append(stack, v), memo, marker, heap)

\* rc!(cell): a new shared cell; the value made of it is pushed on `stk`.
PushNew(stk, tag, cell) ==
    Continue(Append(stk, [tag |-> tag, n |-> Len(heap) + 1, s |-> <<>>]),
             memo, marker, Append(heap, cell))

\* ensure_not_negative! left out, as in the LONG4 arm.
IsNegativeUnchecked(n) == FALSE

\* ensure_not_negative!
IsNegative(n) == n < 0

\* split_off refusing a marker at the stack's end (>= where the code has >).
split_off_at_end_refused(stk, mk) ==
    IF mk = <<>> THEN Err("EmptyMarker")
    ELSE IF mk[1] >= Len(stk) THEN Err("StackTooSmall")
    ELSE Ok([rest |-> Prefix(stk, mk[1]), values |-> Suffix(stk, mk[1])])

\* Machine::split_off
split_off(stk, mk) ==
    IF mk = <<>> THEN Err("EmptyMarker")
    ELSE IF mk[1] > Len(stk) THEN Err("StackTooSmall")
    ELSE Ok([rest |-> Prefix(stk, mk[1]), values |-> Suffix(stk, mk[1])])

\* Machine::pop
pop(stk) ==
    IF stk = <<>> THEN Err("EmptyStack")
    ELSE Ok([rest |-> Front(stk), value |-> Last(stk)])

\* HashMap::insert
Insert(mm, i, v) == [k \in DOMAIN mm \cup {i} |-> IF k = i THEN v ELSE mm[k]]

\* handle_get pushing a copy of the payload in a new cell, as a Value that
\* owned its Vec would on clone.
handle_get_copy(i) ==
    IF i \notin DOMAIN memo THEN Fail("InvalidGetValue", stack)
    ELSE IF IsComposite(memo[i]) THEN PushNew(stack, memo[i].tag, heap[memo[i].n])
    ELSE Push(Clone(memo[i]))

\* handle_get with a missing slot read as None instead of refused.
handle_get_or_none(i) ==
    IF i \notin DOMAIN memo THEN Push(VNone)
    ELSE Push(Clone(memo[i]))

\* Machine::handle_get
handle_get(i) ==
    IF i \notin DOMAIN memo THEN Fail("InvalidGetValue", stack)
    ELSE Push(Clone(memo[i]))

\* handle_put keeping the entry a slot already has (entry().or_insert()).
handle_put_keep_first(i) ==
    IF stack = <<>> THEN Fail("EmptyStack", stack)
    ELSE IF i \in DOMAIN memo THEN Continue(stack, memo, marker, heap)
    ELSE Continue(stack, Insert(memo, i, Clone(Last(stack))), marker, heap)

\* Machine::handle_put
handle_put(i) ==
    IF stack = <<>> THEN Fail("EmptyStack", stack)
    ELSE Continue(stack, Insert(memo, i, Clone(Last(stack))), marker, heap)

\* The index with both booleans taken as 0.
IndexOfBooleanAsZero(boi) ==
    IF boi.kind = "Int" THEN boi.n ELSE 0

\* The index GET and PUT take from read_decimal_int's BooleanOrInt.
IndexOf(boi) ==
    IF boi.kind = "Int" THEN boi.n
    ELSE IF boi.n = 0 THEN 0 ELSE 1

RECURSIVE pair_loop(_, _, _, _)
\* The loop of DICT and SETITEMS, `for i in 0 .. values.len() / 2` with the
\* range taken once: values.remove(2 * i), then values.remove(2 * i + 1).
\* Vec::remove panics when its index is not below the length.
pair_loop(values, i, count, pairs) ==
    IF i >= count THEN [panic |-> FALSE, pairs |-> pairs]
    ELSE IF 2 * i >= Len(values) THEN [panic |-> TRUE, pairs |-> pairs]
    ELSE LET key == values[2 * i + 1]
             less == RemoveAt(values, 2 * i)
         IN  IF 2 * i + 1 >= Len(less) THEN [panic |-> TRUE, pairs |-> pairs]
             ELSE pair_loop(RemoveAt(less, 2 * i + 1), i + 1, count,
                            Append(pairs, << key, less[2 * i + 2] >>))

pairs_of(values) == pair_loop(values, 0, Len(values) \div 2, <<>>)

(***************************************************************************)
(* The inputs: for each opcode with an operand, the byte strings that may  *)
(* follow it in the source.  A string shorter than the operand needs is a  *)
(* source that ends there.                                                 *)
(***************************************************************************)
ProtoOperands == { <<>>, << 0 >>, << 1 >>, << 2 >>, << 255 >> }
\* "00\n", "01\n", "1\n", "\n", "1" (no newline), "0\n", "007\n", "-7\n"
IntOperands ==
    { << 48, 48, 10 >>, << 48, 49, 10 >>, << 49, 10 >>, << 10 >>, << 49 >>,
      << 48, 10 >>, << 48, 48, 55, 10 >>, << 45, 55, 10 >> }
BinIntOperands == { << 1, 0, 0, 0 >>, << 255, 255, 255, 255 >>, << 1 >> }
BinInt1Operands == { << 1 >>, <<>> }
BinInt2Operands == { << 1, 0 >>, << 1 >> }
\* "1L\n", "1\n", "L\n", "\n", "1L" (no newline), "1LL\n", "1xL\n", "-17L\n"
LongOperands ==
    { << 49, 76, 10 >>, << 49, 10 >>, << 76, 10 >>, << 10 >>, << 49, 76 >>,
      << 49, 76, 76, 10 >>, << 49, 120, 76, 10 >>, << 45, 49, 55, 76, 10 >> }
Long1Operands == { << 1, 1 >>, << 1, 255 >>, << 0 >>, << 2, 1 >>, <<>> }
Long4Operands ==
    { << 1, 0, 0, 0, 1 >>, << 0, 0, 0, 0 >>, << 255, 255, 255, 255 >>, << 1, 0 >> }
\* "'a'\n", "'\n", "'\'\n", "'a'" (no newline)
StringOperands ==
    { << 39, 97, 39, 10 >>, << 39, 10 >>, << 39, 92, 39, 10 >>, << 39, 97, 39 >> }
BinStringOperands ==
    { << 1, 0, 0, 0, 97 >>, << 255, 255, 255, 255 >>, << 1, 0, 0, 0 >>, << 1 >> }
ShortBinStringOperands == { << 1, 97 >>, << 1 >>, <<>> }
\* "a\n", "\xe2\x28\xa1\n", "\\\n", "a" (no newline)
UnicodeOperands ==
    { << 97, 10 >>, << 226, 40, 161, 10 >>, << 92, 10 >>, << 97 >> }
BinUnicodeOperands ==
    { << 1, 0, 0, 0, 97 >>, << 255, 255, 255, 255 >>, << 1, 0, 0, 0, 255 >>,
      << 1, 0, 0, 0 >>, << 1 >> }
\* "1.5\n", "x\n", "1.5" (no newline)
FloatOperands == { << 49, 46, 53, 10 >>, << 120, 10 >>, << 49, 46, 53 >> }
BinFloatOperands == { << 63, 248, 0, 0, 0, 0, 0, 0 >>, << 63 >> }
\* "0\n", "1\n", "-1\n", "\n", "0" (no newline), "00\n", "01\n"
IndexOperands ==
    { << 48, 10 >>, << 49, 10 >>, << 45, 49, 10 >>, << 10 >>, << 48 >>,
      << 48, 48, 10 >>, << 48, 49, 10 >> }
BinIndexOperands == { << 0 >>, << 1 >>, <<>> }
LongBinIndexOperands ==
    { << 0, 0, 0, 0 >>, << 1, 0, 0, 0 >>, << 255, 255, 255, 255 >>, << 0 >> }

(***************************************************************************)
(* Machine::execute, one action per arm of its match.                      *)
(***************************************************************************)
\* PROTO refusing version 2 as well (<= where the code has <).
ExecProtoRefusingTwo ==
    \E bytes \in ProtoOperands :
        /\ Fetch(PROTO, bytes)
        /\ LET version == read_u8(bytes)
           IN  IF version.err # "" THEN Fail(version.err, stack)
               ELSE IF version.val <= 2
                    THEN FailWith("InvalidProto", version.val, "", stack)
               ELSE Continue(stack, memo, marker, heap)

ExecProto ==
    \E bytes \in ProtoOperands :
        /\ Fetch(PROTO, bytes)
        /\ LET version == read_u8(bytes)
           IN  IF version.err # "" THEN Fail(version.err, stack)
               ELSE IF version.val < 2
                    THEN FailWith("InvalidProto", version.val, "", stack)
               ELSE Continue(stack, memo, marker, heap)

\* STOP returning Ok(false), as the other opcodes do.
ExecStopGoingOn ==
    /\ Fetch(STOP, <<>>)
    /\ Continue(stack, memo, marker, heap)

ExecStop ==
    /\ Fetch(STOP, <<>>)
    /\ status' = "halted"
    /\ UNCHANGED << stack, memo, marker, heap, error, result >>

ExecInt ==
    \E bytes \in IntOperands :
        /\ Fetch(INT, bytes)
        /\ LET r == read_decimal_int(bytes)
           IN  IF r.err # "" THEN Fail(r.err, stack)
               ELSE IF r.val.kind = "Boolean" THEN Push(VBool(r.val.n = 1))
               ELSE Push(VLong(r.val.n))

ExecBinInt ==
    \E bytes \in BinIntOperands :
        /\ Fetch(BININT, bytes)
        /\ LET r == read_i32_le(bytes)
           IN  IF r.err # "" THEN Fail(r.err, stack) ELSE Push(VInt(r.val))

ExecBinInt1 ==
    \E bytes \in BinInt1Operands :
        /\ Fetch(BININT1, bytes)
        /\ LET r == read_u8(bytes)
           IN  IF r.err # "" THEN Fail(r.err, stack) ELSE Push(VInt(r.val))

ExecBinInt2 ==
    \E bytes \in BinInt2Operands :
        /\ Fetch(BININT2, bytes)
        /\ LET r == read_u16_le(bytes)
           IN  IF r.err # "" THEN Fail(r.err, stack) ELSE Push(VInt(r.val))

ExecLong ==
    \E bytes \in LongOperands :
        /\ Fetch(LONG, bytes)
        /\ LET r == read_decimal_long(bytes)
           IN  IF r.err # "" THEN Fail(r.err, stack) ELSE Push(VLong(r.val))

\* The LONG1 arm on a source that holds `bytes` after the opcode.
Long1(bytes) ==
    /\ Fetch(LONG1, bytes)
    /\ LET length == read_u8(bytes)
       IN  IF length.err # "" THEN Fail(length.err, stack)
           ELSE LET r == read_long(Tail(bytes), length.val)
                IN  IF r.err # "" THEN Fail(r.err, stack)
                    ELSE Push(VLong(r.val))

ExecLong1 == \E bytes \in Long1Operands : Long1(bytes)

\* `length as usize` of a negative i32 is above isize::MAX, and vec![0; _]
\* of that many bytes panics with a capacity overflow.
Long4(bytes) ==
    /\ Fetch(LONG4, bytes)
    /\ LET length == read_i32_le(bytes)
       IN  IF length.err # "" THEN Fail(length.err, stack)
           ELSE IF length.val < 0 THEN Panic(stack, heap)
           ELSE LET r == read_long(SubSeq(bytes, 5, Len(bytes)), length.val)
                IN  IF r.err # "" THEN Fail(r.err, stack)
                    ELSE Push(VLong(r.val))

ExecLong4 == \E bytes \in Long4Operands : Long4(bytes)

\* STRING with the bytes `bytes` after the opcode.
StepString(bytes) ==
    /\ Fetch(STRING_OP, bytes)
    /\ LET r == read_bracketed_string(bytes)
       IN  IF r.err = "" THEN Push(VString(r.val))
           ELSE IF r.err = "InvalidString" THEN Fail(r.err, stack)
           ELSE FailWith("UnescapeError", 0, r.err, stack)

ExecString == \E bytes \in StringOperands : StepString(bytes)

ExecBinString ==
    \E bytes \in BinStringOperands :
        /\ Fetch(BINSTRING, bytes)
        /\ LET length == read_i32_le(bytes)
           IN  IF length.err # "" THEN Fail(length.err, stack)
               ELSE IF IsNegative(length.val) THEN Fail("NegativeLength", stack)
               ELSE LET buf == read_exact(SubSeq(bytes, 5, Len(bytes)), length.val)
                    IN  IF buf.err # "" THEN Fail(buf.err, stack)
                        ELSE Push(VString(buf.val))

ExecShortBinString ==
    \E bytes \in ShortBinStringOperands :
        /\ Fetch(SHORT_BINSTRING, bytes)
        /\ LET length == read_u8(bytes)
           IN  IF length.err # "" THEN Fail(length.err, stack)
               ELSE LET buf == read_exact(Tail(bytes), length.val)
                    IN  IF buf.err # "" THEN Fail(buf.err, stack)
                        ELSE Push(VString(buf.val))

ExecNone == Fetch(NONE, <<>>) /\ Push(VNone)

ExecNewTrue == Fetch(NEWTRUE, <<>>) /\ Push(VBool(TRUE))

ExecNewFalse == Fetch(NEWFALSE, <<>>) /\ Push(VBool(FALSE))

\* UNICODE pushing the bytes without validating them (from_utf8_unchecked).
ExecUnicodeUnchecked ==
    \E bytes \in UnicodeOperands :
        /\ Fetch(UNICODE, bytes)
        /\ LET s == read_until_newline(bytes)
           IN  IF s.err # "" THEN Fail(s.err, stack)
               ELSE LET buf == unescape(s.val, TRUE)
                    IN  IF buf.err # "" THEN FailWith("UnescapeError", 0, buf.err, stack)
                        ELSE Push(VUnicode(buf.val))

\* UNICODE with the bytes `bytes` after the opcode.
StepUnicode(bytes) ==
    /\ Fetch(UNICODE, bytes)
    /\ LET s == read_until_newline(bytes)
       IN  IF s.err # "" THEN Fail(s.err, stack)
           ELSE LET buf == unescape(s.val, TRUE)
                IN  IF buf.err # "" THEN FailWith("UnescapeError", 0, buf.err, stack)
                    ELSE IF ~IsUtf8(buf.val) THEN Fail("UnicodeError", stack)
                    ELSE Push(VUnicode(buf.val))

ExecUnicode == \E bytes \in UnicodeOperands : StepUnicode(bytes)

ExecBinUnicode ==
    \E bytes \in BinUnicodeOperands :
        /\ Fetch(BINUNICODE, bytes)
        /\ LET length == read_i32_le(bytes)
           IN  IF length.err # "" THEN Fail(length.err, stack)
               ELSE IF IsNegative(length.val) THEN Fail("NegativeLength", stack)
               ELSE LET buf == read_exact(SubSeq(bytes, 5, Len(bytes)), length.val)
                    IN  IF buf.err # "" THEN Fail(buf.err, stack)
                        ELSE IF ~IsUtf8(buf.val) THEN Fail("UnicodeError", stack)
                        ELSE Push(VUnicode(buf.val))

ExecFloat ==
    \E bytes \in FloatOperands :
        /\ Fetch(FLOAT, bytes)
        /\ LET s == read_until_newline(bytes)
           IN  IF s.err # "" THEN Fail(s.err, stack)
               ELSE LET f == from_ascii_f64(s.val)
                    IN  IF f.err # "" THEN Fail(f.err, stack)
                        ELSE Push(VFloat(f.val))

ExecBinFloat ==
    \E bytes \in BinFloatOperands :
        /\ Fetch(BINFLOAT, bytes)
        /\ IF Len(bytes) < 8 THEN Fail("Read", stack)
           ELSE Push(VFloat(SubSeq(bytes, 1, 8)))

ExecEmptyList == Fetch(EMPTY_LIST, <<>>) /\ PushNew(stack, "List", <<>>)

\* APPEND putting the popped value in front of the elements (insert(0, v)).
ExecAppendInFront ==
    /\ Fetch(APPEND, <<>>)
    /\ LET p == pop(stack)
       IN  IF p.err # "" THEN Fail(p.err, stack)
           ELSE LET rest == p.val.rest
                IN  IF rest = <<>> THEN Fail("EmptyStack", rest)
                    ELSE IF Last(rest).tag = "List"
                         THEN Continue(rest, memo, marker,
                                       [heap EXCEPT ![Last(rest).n] = << p.val.value >> \o @])
                    ELSE Fail("InvalidValueOnStack", rest)

ExecAppend ==
    /\ Fetch(APPEND, <<>>)
    /\ LET p == pop(stack)
       IN  IF p.err # "" THEN Fail(p.err, stack)
           ELSE LET rest == p.val.rest
                IN  IF rest = <<>> THEN Fail("EmptyStack", rest)
                    ELSE IF Last(rest).tag = "List"
                         THEN Continue(rest, memo, marker,
                                       [heap EXCEPT ![Last(rest).n] = Append(@, p.val.value)])
                    ELSE Fail("InvalidValueOnStack", rest)

ExecAppends ==
    /\ Fetch(APPENDS, <<>>)
    /\ LET sp == split_off(stack, marker)
       IN  IF sp.err # "" THEN Fail(sp.err, stack)
           ELSE LET rest == sp.val.rest
                IN  IF rest = <<>> THEN Fail("EmptyStack", rest)
                    ELSE IF Last(rest).tag = "List"
                         THEN Continue(rest, memo, marker,
                                       [heap EXCEPT ![Last(rest).n] = @ \o sp.val.values])
                    ELSE Fail("InvalidValueOnStack", rest)

\* LIST with a split_off that takes the marker (self.marker.take()).
ExecListTakingMarker ==
    /\ Fetch(LIST, <<>>)
    /\ LET sp == split_off(stack, marker)
       IN  IF sp.err # "" THEN Fail(sp.err, stack)
           ELSE Continue(Append(sp.val.rest, VList(Len(heap) + 1)), memo, <<>>,
                         Append(heap, sp.val.values))

ExecList ==
    /\ Fetch(LIST, <<>>)
    /\ LET sp == split_off(stack, marker)
       IN  IF sp.err # "" THEN Fail(sp.err, stack)
           ELSE PushNew(sp.val.rest, "List", sp.val.values)

ExecEmptyTuple == Fetch(EMPTY_TUPLE, <<>>) /\ PushNew(stack, "Tuple", <<>>)

ExecTuple ==
    /\ Fetch(TUPLE, <<>>)
    /\ LET sp == split_off(stack, marker)
       IN  IF sp.err # "" THEN Fail(sp.err, stack)
           ELSE PushNew(sp.val.rest, "Tuple", sp.val.values)

ExecTuple1 ==
    /\ Fetch(TUPLE1, <<>>)
    /\ LET p1 == pop(stack)
       IN  IF p1.err # "" THEN Fail(p1.err, stack)
           ELSE PushNew(p1.val.rest, "Tuple", << p1.val.value >>)

\* vec![v1, v2] with v1 popped first.
ExecTuple2 ==
    /\ Fetch(TUPLE2, <<>>)
    /\ LET p1 == pop(stack)
       IN  IF p1.err # "" THEN Fail(p1.err, stack)
           ELSE LET p2 == pop(p1.val.rest)
                IN  IF p2.err # "" THEN Fail(p2.err, p1.val.rest)
                    ELSE PushNew(p2.val.rest, "Tuple", << p1.val.value, p2.val.value >>)

\* vec![v1, v2, v3] with v1 popped first.
ExecTuple3 ==
    /\ Fetch(TUPLE3, <<>>)
    /\ LET p1 == pop(stack)
       IN  IF p1.err # "" THEN Fail(p1.err, stack)
           ELSE LET p2 == pop(p1.val.rest)
                IN  IF p2.err # "" THEN Fail(p2.err, p1.val.rest)
                    ELSE LET p3 == pop(p2.val.rest)
                         IN  IF p3.err # "" THEN Fail(p3.err, p2.val.rest)
                             ELSE PushNew(p3.val.rest, "Tuple",
                                          << p1.val.value, p2.val.value, p3.val.value >>)

ExecEmptyDict == Fetch(EMPTY_DICT, <<>>) /\ PushNew(stack, "Dict", <<>>)

ExecDict ==
    /\ Fetch(DICT, <<>>)
    /\ LET sp == split_off(stack, marker)
       IN  IF sp.err # "" THEN Fail(sp.err, stack)
           ELSE LET dict == pairs_of(sp.val.values)
                IN  IF dict.panic THEN Panic(sp.val.rest, heap)
                    ELSE PushNew(sp.val.rest, "Dict", dict.pairs)

\* SETITEM taking a List for its target as well.
ExecSetItemOnList ==
    /\ Fetch(SETITEM, <<>>)
    /\ LET pv == pop(stack)
       IN  IF pv.err # "" THEN Fail(pv.err, stack)
           ELSE LET pk == pop(pv.val.rest)
                IN  IF pk.err # "" THEN Fail(pk.err, pv.val.rest)
                    ELSE LET rest == pk.val.rest
                         IN  IF rest = <<>> THEN Fail("EmptyStack", rest)
                             ELSE IF Last(rest).tag \in { "Dict", "List" }
                                  THEN Continue(rest, memo, marker,
                                         [heap EXCEPT ![Last(rest).n] =
                                             Append(@, << pk.val.value, pv.val.value >>)])
                             ELSE Fail("InvalidValueOnStack", rest)

ExecSetItem ==
    /\ Fetch(SETITEM, <<>>)
    /\ LET pv == pop(stack)
       IN  IF pv.err # "" THEN Fail(pv.err, stack)
           ELSE LET pk == pop(pv.val.rest)
                IN  IF pk.err # "" THEN Fail(pk.err, pv.val.rest)
                    ELSE LET rest == pk.val.rest
                         IN  IF rest = <<>> THEN Fail("EmptyStack", rest)
                             ELSE IF Last(rest).tag = "Dict"
                                  THEN Continue(rest, memo, marker,
                                         [heap EXCEPT ![Last(rest).n] =
                                             Append(@, << pk.val.value, pv.val.value >>)])
                             ELSE Fail("InvalidValueOnStack", rest)

\* The pairs the loop pushed before a panic are in the Dict already.
ExecSetItems ==
    /\ Fetch(SETITEMS, <<>>)
    /\ LET sp == split_off(stack, marker)
       IN  IF sp.err # "" THEN Fail(sp.err, stack)
           ELSE LET rest == sp.val.rest
                IN  IF rest = <<>> THEN Fail("EmptyStack", rest)
                    ELSE IF Last(rest).tag = "Dict"
                         THEN LET added == pairs_of(sp.val.values)
                                  hp == [heap EXCEPT ![Last(rest).n] = @ \o added.pairs]
                              IN  IF added.panic THEN Panic(rest, hp)
                                  ELSE Continue(rest, memo, marker, hp)
                    ELSE Fail("InvalidValueOnStack", rest)

ExecPop ==
    /\ Fetch(POP, <<>>)
    /\ LET p == pop(stack)
       IN  IF p.err # "" THEN Fail(p.err, stack)
           ELSE Continue(p.val.rest, memo, marker, heap)

\* DUP pushing a copy of the payload in a new cell, as a Value that owned
\* its Vec would on clone.
ExecDupCopying ==
    /\ Fetch(DUP, <<>>)
    /\ IF stack = <<>> THEN Fail("EmptyStack", stack)
       ELSE IF IsComposite(Last(stack))
            THEN PushNew(stack, Last(stack).tag, heap[Last(stack).n])
       ELSE Push(Clone(Last(stack)))

ExecDup ==
    /\ Fetch(DUP, <<>>)
    /\ IF stack = <<>> THEN Fail("EmptyStack", stack)
       ELSE Push(Clone(Last(stack)))

\* MARK keeping a marker already set, as an outer mark would need.
ExecMarkKeepingFirst ==
    /\ Fetch(MARK, <<>>)
    /\ Continue(stack, memo, IF marker = <<>> THEN << Len(stack) >> ELSE marker, heap)

ExecMark ==
    /\ Fetch(MARK, <<>>)
    /\ Continue(stack, memo, << Len(stack) >>, heap)

\* POP_MARK taking the marker away with the values above it.
ExecPopMarkClearing ==
    /\ Fetch(POP_MARK, <<>>)
    /\ LET sp == split_off(stack, marker)
       IN  IF sp.err # "" THEN Fail(sp.err, stack)
           ELSE Continue(sp.val.rest, memo, <<>>, heap)

\* POP_MARK cutting the stack down before it compares the marker with it.
ExecPopMarkTruncating ==
    /\ Fetch(POP_MARK, <<>>)
    /\ IF marker = <<>> THEN Fail("EmptyMarker", stack)
       ELSE IF marker[1] > Len(stack) THEN Fail("StackTooSmall", <<>>)
       ELSE Continue(Prefix(stack, marker[1]), memo, marker, heap)

ExecPopMark ==
    /\ Fetch(POP_MARK, <<>>)
    /\ LET sp == split_off(stack, marker)
       IN  IF sp.err # "" THEN Fail(sp.err, stack)
           ELSE Continue(sp.val.rest, memo, marker, heap)

ExecGet ==
    \E bytes \in IndexOperands :
        /\ Fetch(GET, bytes)
        /\ LET r == read_decimal_int(bytes)
           IN  IF r.err # "" THEN Fail(r.err, stack)
               ELSE IF IsNegative(IndexOf(r.val)) THEN Fail("NegativeLength", stack)
               ELSE handle_get(IndexOf(r.val))

ExecBinGet ==
    \E bytes \in BinIndexOperands :
        /\ Fetch(BINGET, bytes)
        /\ LET r == read_u8(bytes)
           IN  IF r.err # "" THEN Fail(r.err, stack) ELSE handle_get(r.val)

ExecLongBinGet ==
    \E bytes \in LongBinIndexOperands :
        /\ Fetch(LONG_BINGET, bytes)
        /\ LET r == read_i32_le(bytes)
           IN  IF r.err # "" THEN Fail(r.err, stack)
               ELSE IF IsNegative(r.val) THEN Fail("NegativeLength", stack)
               ELSE handle_get(r.val)

ExecPut ==
    \E bytes \in IndexOperands :
        /\ Fetch(PUT, bytes)
        /\ LET r == read_decimal_int(bytes)
           IN  IF r.err # "" THEN Fail(r.err, stack)
               ELSE IF IsNegative(IndexOf(r.val)) THEN Fail("NegativeLength", stack)
               ELSE handle_put(IndexOf(r.val))

ExecBinPut ==
    \E bytes \in BinIndexOperands :
        /\ Fetch(BINPUT, bytes)
        /\ LET r == read_u8(bytes)
           IN  IF r.err # "" THEN Fail(r.err, stack) ELSE handle_put(r.val)

ExecLongBinPut ==
    \E bytes \in LongBinIndexOperands :
        /\ Fetch(LONG_BINPUT, bytes)
        /\ LET r == read_i32_le(bytes)
           IN  IF r.err # "" THEN Fail(r.err, stack)
               ELSE IF IsNegative(r.val) THEN Fail("NegativeLength", stack)
               ELSE handle_put(r.val)

\* The default arm reporting the byte after a shift, as a signed cast would.
ExecUnknownShifted ==
    \E c \in Byte \ MatchedOpcodes :
        /\ Fetch(c, <<>>)
        /\ FailWith("UnknownOpcode", IF c >= 128 THEN c - 128 ELSE c, "", stack)

\* The default arm skipping the opcodes of read_opcode it has no arm for.
ExecUnknownSkipping ==
    \E c \in Byte \ MatchedOpcodes :
        /\ Fetch(c, <<>>)
        /\ IF c \in ClassOpcodes THEN Continue(stack, memo, marker, heap)
           ELSE FailWith("UnknownOpcode", c, "", stack)

\* The default arm: every byte without an arm of its own.
ExecUnknown ==
    \E c \in Byte \ MatchedOpcodes :
        /\ Fetch(c, <<>>)
        /\ FailWith("UnknownOpcode", c, "", stack)

\* The end of the source taken for a step that did nothing.
ExecEofIgnored ==
    /\ status = "running"
    /\ fuel' = 0
    /\ opcode' = -1
    /\ operand' = <<>>
    /\ Continue(stack, memo, marker, heap)

\* rd.read_u8() for the opcode finds the source at its end.
ExecEof ==
    /\ status = "running"
    /\ fuel' = 0
    /\ opcode' = -1
    /\ operand' = <<>>
    /\ Fail("Read", stack)

\* unpickle refusing a stack that does not hold exactly one value.
ReturnOnlyValue ==
    /\ status = "halted"
    /\ IF Len(stack) # 1
       THEN /\ status' = "error"
            /\ error' = [kind |-> IF stack = <<>> THEN "EmptyStack" ELSE "InvalidValueOnStack",
                         arg |-> 0, cause |-> ""]
            /\ UNCHANGED << stack, result >>
       ELSE /\ status' = "done"
            /\ result' = << Last(stack) >>
            /\ stack' = Front(stack)
            /\ UNCHANGED error
    /\ UNCHANGED << memo, marker, heap, opcode, operand, fuel >>

\* unpickle after the loop: Ok(try!(machine.pop())).
Return ==
    /\ status = "halted"
    /\ LET p == pop(stack)
       IN  IF p.err # ""
           THEN /\ status' = "error"
                /\ error' = [kind |-> p.err, arg |-> 0, cause |-> ""]
                /\ UNCHANGED << stack, result >>
           ELSE /\ status' = "done"
                /\ result' = << p.val.value >>
                /\ stack' = p.val.rest
                /\ UNCHANGED error
    /\ UNCHANGED << memo, marker, heap, opcode, operand, fuel >>

Next ==
    \/ ExecProto \/ ExecStop
    \/ ExecInt \/ ExecBinInt \/ ExecBinInt1 \/ ExecBinInt2
    \/ ExecLong \/ ExecLong1 \/ ExecLong4
    \/ ExecString \/ ExecBinString \/ ExecShortBinString
    \/ ExecNone \/ ExecNewTrue \/ ExecNewFalse
    \/ ExecUnicode \/ ExecBinUnicode
    \/ ExecFloat \/ ExecBinFloat
    \/ ExecEmptyList \/ ExecAppend \/ ExecAppends \/ ExecList
    \/ ExecEmptyTuple \/ ExecTuple \/ ExecTuple1 \/ ExecTuple2 \/ ExecTuple3
    \/ ExecEmptyDict \/ ExecDict \/ ExecSetItem \/ ExecSetItems
    \/ ExecPop \/ ExecDup \/ ExecMark \/ ExecPopMark
    \/ ExecGet \/ ExecBinGet \/ ExecLongBinGet
    \/ ExecPut \/ ExecBinPut \/ ExecLongBinPut
    \/ ExecUnknown \/ ExecEof
    \/ Return

Spec == Init /\ [][Next]_vars

(***************************************************************************)
(* The same machine fed only the opcodes that build and take apart         *)
(* values, so that longer pickles are covered.                             *)
(***************************************************************************)
MaxBuildSteps == 5

InitBuild == Start(MaxBuildSteps)

NextBuild ==
    \/ ExecNone
    \/ ExecNewTrue
    \/ ExecNewFalse
    \/ ExecEmptyList
    \/ ExecAppend
    \/ ExecAppends
    \/ ExecList
    \/ ExecEmptyTuple
    \/ ExecTuple
    \/ ExecTuple1
    \/ ExecTuple2
    \/ ExecTuple3
    \/ ExecEmptyDict
    \/ ExecDict
    \/ ExecSetItem
    \/ ExecSetItems
    \/ ExecPop
    \/ ExecDup
    \/ ExecMark
    \/ ExecPopMark
    \/ ExecStop
    \/ Return

SpecBuild == InitBuild /\ [][NextBuild]_vars

(***************************************************************************)
(* The same machine fed only the memo opcodes and the opcodes that fill a  *)
(* list or a dict.                                                         *)
(***************************************************************************)
MaxMemoSteps == 7

InitMemo == Start(MaxMemoSteps)

NextMemo ==
    \/ ExecNone
    \/ ExecEmptyList
    \/ ExecAppend
    \/ ExecAppends
    \/ ExecEmptyDict
    \/ ExecSetItem
    \/ ExecSetItems
    \/ ExecMark
    \/ ExecGet
    \/ ExecBinGet
    \/ ExecLongBinGet
    \/ ExecPut
    \/ ExecBinPut
    \/ ExecLongBinPut

SpecMemo == InitMemo /\ [][NextMemo]_vars

(***************************************************************************)
(* The same machine fed LONG1 and LONG4 with many payloads: every payload  *)
(* of one byte, and payloads of two and three bytes over the bytes where   *)
(* the sign changes.  (Payloads stay below four bytes: the numbers are     *)
(* kept inside 32 bits.)                                                   *)
(***************************************************************************)
MaxLongSteps == 1

EdgeBytes == { 0, 1, 127, 128, 255 }

LongPayloads ==
    { << b >> : b \in Byte }
      \cup { << a, b >> : a \in EdgeBytes, b \in EdgeBytes }
      \cup { << a, b, c >> : a \in { 0, 255 }, b \in { 0, 255 }, c \in EdgeBytes }

\* The length in one byte, then the payload; also a length of 0, a payload
\* one byte short, and no length.
Long1Sources ==
    { << Len(p) >> \o p : p \in LongPayloads }
      \cup { << 0 >>, << 0, 1 >>, << 2, 1 >>, <<>> }

\* The length in four bytes, then the payload; also a length of 0, a
\* negative length, a payload one byte short, and a short length.
Long4Sources ==
    { << Len(p), 0, 0, 0 >> \o p : p \in LongPayloads }
      \cup { << 0, 0, 0, 0 >>, << 0, 0, 0, 0, 1 >>, << 255, 255, 255, 255 >>,
             << 2, 0, 0, 0, 1 >>, << 1, 0 >> }

ExecLong1Payload == \E bytes \in Long1Sources : Long1(bytes)

ExecLong4Payload == \E bytes \in Long4Sources : Long4(bytes)

InitLong == Start(MaxLongSteps)

NextLong ==
    \/ ExecLong1Payload
    \/ ExecLong4Payload
    \/ ExecNone
    \/ ExecStop
    \/ Return

SpecLong == InitLong /\ [][NextLong]_vars

(***************************************************************************)
(* STRING and UNICODE over operands with escapes: one opcode with an       *)
(* operand from a wide set.                                                *)
(***************************************************************************)
MaxTextSteps == 1

\* A backslash and up to three of the digits '0', '3', '7' and (not octal)
\* '8', then nothing, '7' or 'o'; the escapes of test_unescape; two escapes
\* in one string; a backslash and a byte that is no escape; \u, \U and \N,
\* well formed and not.
EscapeInteriors ==
    LET OctalDigits == { 48, 51, 55, 56 }
        OctalRuns ==
            { << a >> : a \in OctalDigits }
              \cup { << a, b >> : a \in OctalDigits, b \in OctalDigits }
              \cup { << a, b, c >> : a \in OctalDigits, b \in OctalDigits,
                                    c \in OctalDigits }
    IN
    { << 92 >> \o r \o post : r \in OctalRuns, post \in { <<>>, << 55 >>, << 111 >> } }
      \cup { pre \o << 92, c >> \o post :
                pre \in { <<>>, << 102 >> },
                c \in { 99, 111, 117, 85, 78, 57, 110, 92, 10 },
                post \in { <<>>, << 111, 111 >> } }
      \cup { << 102, 111, 111 >>,                                       \* foo
             << 92, 52, 48, 48 >>,                                      \* \400
             << 102, 92, 51, 55, 53, 111, 111 >>,                       \* f\375oo
             << 102, 92, 55, 53, 111, 111 >>,                           \* f\75oo
             << 102, 92, 53, 111, 111 >>,                               \* f\5oo
             << 92, 51, 92, 55 >>,                                      \* \3\7
             << 92, 51, 55, 55, 92, 51, 55, 55 >>,                      \* \377\377
             << 92, 51, 55, 92, 55, 48, 48 >>,                          \* \37\700
             << 102, 92, 120, 48, 49, 111, 111 >>,                      \* f\x01oo
             << 92, 120, 52 >>,                                         \* \x4
             << 92, 120, 122, 122 >>,                                   \* \xzz
             << 92 >>,
             << 102, 92, 117, 50, 54, 54, 51, 111, 111 >>,              \* f\u2663oo
             << 92, 117, 100, 56, 48, 48 >>,                            \* \ud800
             << 92, 117, 50, 54 >>,                                     \* \u26
             << 102, 92, 85, 48, 48, 48, 48, 50, 54, 54, 51, 111, 111 >>, \* f\U00002663oo
             << 92, 85, 48, 48, 49, 49, 48, 48, 48, 48 >>,              \* \U00110000
             << 102, 92, 78, 123, 83, 78, 79, 87, 77, 65, 78, 125, 111, 111 >>, \* f\N{SNOWMAN}oo
             << 92, 78, 123, 88, 125 >>,                                \* \N{X}
             << 92, 78, 88 >>,                                          \* \NX
             << 92, 78, 123, 88 >> }                                    \* \N{X

\* The interior between two quotes and a newline; also operands with other
\* bytes for the quotes, too short for them, and without the newline.
StringSources ==
    { << 39 >> \o e \o << 39, 10 >> : e \in EscapeInteriors }
      \cup { << 34, 97, 34, 10 >>, << 120, 97, 121, 10 >>, << 97, 98, 10 >>,
             << 39, 10 >>, << 10 >>, << 39, 97, 39 >>, <<>> }

UnicodeSources ==
    { e \o << 10 >> : e \in EscapeInteriors } \cup { << 10 >>, << 97 >>, <<>> }

ExecStringEscapes == \E bytes \in StringSources : StepString(bytes)

ExecUnicodeEscapes == \E bytes \in UnicodeSources : StepUnicode(bytes)

InitText == Start(MaxTextSteps)

NextText ==
    \/ ExecStringEscapes
    \/ ExecUnicodeEscapes
    \/ ExecNone
    \/ ExecStop
    \/ Return

SpecText == InitText /\ [][NextText]_vars

(***************************************************************************)
(* The machine fed the opcodes that return an error before they change     *)
(* anything, with those that set up the stack, the memo and the marker for *)
(* them.                                                                   *)
(***************************************************************************)
MaxRefusedSteps == 5

InitRefused == Start(MaxRefusedSteps)

NextRefused ==
    \/ ExecNone
    \/ ExecMark
    \/ ExecPop
    \/ ExecPopMark
    \/ ExecList
    \/ ExecDup
    \/ ExecProto
    \/ ExecUnknown
    \/ ExecGet
    \/ ExecBinPut
    \/ ExecLongBinPut

SpecRefused == InitRefused /\ [][NextRefused]_vars

(***************************************************************************)
(* The machine on every opcode, its loop never stopping while a step is    *)
(* left to take: unpickle calls execute again as soon as it returned       *)
(* Ok(false).                                                              *)
(***************************************************************************)
MaxFairSteps == 2

InitFair == Start(MaxFairSteps)

SpecFair == InitFair /\ [][Next]_vars /\ WF_vars(Next)

(***************************************************************************)
(* Properties.                                                             *)
(***************************************************************************)
GetFamily == { GET, BINGET, LONG_BINGET }
PutFamily == { PUT, BINPUT, LONG_BINPUT }

\* The step from this state to the next executes opcode `op`.
Executes(op) == status = "running" /\ opcode' = op

\* The memo index the operand `bytes` of a GET- or PUT-family opcode names;
\* negative when it names none.
SlotOf(op, bytes) ==
    IF op \in { GET, PUT }
    THEN LET r == read_decimal_int(bytes)
         IN  IF r.err # "" THEN -1 ELSE r.val.n
    ELSE IF op \in { BINGET, BINPUT }
    THEN IF Len(bytes) >= 1 THEN bytes[1] ELSE -1
    ELSE LET r == read_i32_le(bytes)
         IN  IF r.err # "" THEN -1 ELSE r.val

\* C1 (as the claim states it): decode returns a value only when STOP found
\* exactly one value on the stack, so nothing is left below the value
\* returned.
C1_OnlySingleValueReturned ==
    status = "done" => stack = <<>>

\* C1 (amended): when STOP has been executed, decode returns Ok(v) exactly
\* when the stack holds at least one value, v being the stack top and the
\* values below it left behind; with an empty stack it returns EmptyStack.
C1_ReturnsStackTop ==
    [][ status = "halted" =>
          IF stack = <<>>
          THEN status' = "error" /\ error'.kind = "EmptyStack" /\ result' = <<>>
          ELSE /\ status' = "done"
               /\ result' = << Last(stack) >>
               /\ stack' = Front(stack)
               /\ error' = NoError ]_vars

\* C1 witness: a value was returned while another one was left on the stack.
C1_Witness ==
    status = "done" /\ Len(result) = 1 /\ Len(stack) >= 1

\* C4: a GET, BINGET or LONG_BINGET of a slot the memo does not hold returns
\* InvalidGetValue and leaves the stack as it was; the memo holds exactly the
\* slots PUT-family opcodes have written (only they add a key, none removes
\* one).
C4_GetOfUnsetSlot ==
    [][ /\ \A op \in GetFamily :
             ( /\ Executes(op)
               /\ SlotOf(op, operand') >= 0
               /\ SlotOf(op, operand') \notin DOMAIN memo )
             => ( /\ status' = "error"
                  /\ error'.kind = "InvalidGetValue"
                  /\ stack' = stack )
        /\ DOMAIN memo' # DOMAIN memo
             => ( /\ opcode' \in PutFamily
                  /\ DOMAIN memo' = DOMAIN memo \cup { SlotOf(opcode', operand') } )
      ]_vars

\* C4 witness: a GET-family opcode was refused with InvalidGetValue while
\* another slot was set and the stack held a value.
C4_Witness ==
    /\ status = "error"
    /\ error.kind = "InvalidGetValue"
    /\ opcode \in GetFamily
    /\ DOMAIN memo # {}
    /\ stack # <<>>

\* C5: a byte that is neither an opcode execute matches nor a class-instance
\* opcode makes the step return UnknownOpcode carrying that byte.
C5_UnknownOpcode ==
    opcode \in Byte \ (MatchedOpcodes \cup ClassOpcodes)
        => /\ status = "error"
           /\ error = [kind |-> "UnknownOpcode", arg |-> opcode, cause |-> ""]

\* C5 witness: byte 0xff was refused in a machine that had state.
C5_Witness ==
    /\ opcode = 255
    /\ error.kind = "UnknownOpcode"
    /\ error.arg = 255
    /\ stack # <<>>
    /\ marker # <<>>

\* C6 (as the claim states it): a class-instance opcode returns an error of
\* kind NotImplemented.
C6_NotImplemented ==
    opcode \in ClassOpcodes => status = "error" /\ error.kind = "NotImplemented"

\* C6 (amended): a class-instance opcode returns UnknownOpcode carrying its
\* byte, the kind every unmatched byte gets, and leaves stack, memo, marker
\* and the shared cells unchanged.
C6_ClassOpcodeIsUnknown ==
    [][ \A op \in ClassOpcodes :
          Executes(op)
          => /\ status' = "error"
             /\ error' = [kind |-> "UnknownOpcode", arg |-> op, cause |-> ""]
             /\ UNCHANGED << stack, memo, marker, heap >> ]_vars

\* C6 witness: GLOBAL was refused in a machine that had stack, memo and marker.
C6_Witness ==
    /\ opcode = GLOBAL
    /\ status = "error"
    /\ error.kind = "UnknownOpcode"
    /\ stack # <<>>
    /\ DOMAIN memo # {}

\* C7 (as the claim states it): BINSTRING, BINUNICODE or LONG4 with a length
\* field that is negative as a signed 32-bit integer returns NegativeLength.
C7_NegativeLength ==
    ( /\ opcode \in { BINSTRING, BINUNICODE, LONG4 }
      /\ Len(operand) >= 4
      /\ read_i32_le(operand).val < 0 )
    => status = "error" /\ error.kind = "NegativeLength"

\* C8 (as the claim states it): every step ends in Ok or Err; none aborts
\* the decoder.
C8_NoPanic ==
    status # "panic"

\* The values a reference to a list, tuple or dict shows: the payload of the
\* cell it shares.
Contents(v, hp) == hp[v.n]

C3_LastWriteWins ==
    [][ /\ \A op \in PutFamily :
             (Executes(op) /\ status' = "running")
             => LET n == SlotOf(op, operand')
                IN  /\ stack # <<>>
                    /\ DOMAIN memo' = DOMAIN memo \cup { n }
                    /\ memo'[n] = Last(stack)
                    /\ \A k \in DOMAIN memo : k # n => memo'[k] = memo[k]
        /\ (opcode' \notin PutFamily \/ status' # "running") => memo' = memo
        /\ \A op \in GetFamily :
             (Executes(op) /\ status' = "running")
             => stack' = Append(stack, memo[SlotOf(op, operand')])
      ]_vars

\* C3 witness: the only slot written first held a list, which an earlier
\* read pushed a second time, was then overwritten, and the latest read
\* pushed the value written last.
C3_Witness ==
    /\ status = "running"
    /\ opcode \in GetFamily
    /\ Cardinality(DOMAIN memo) = 1
    /\ \A n \in DOMAIN memo : Last(stack) = memo[n]
    /\ \E i, j \in DOMAIN stack :
         /\ i < j
         /\ stack[i] = stack[j]
         /\ IsComposite(stack[i])
         /\ stack[i] # Last(stack)

\* C9 (as the claim states it): TUPLE2 and TUPLE3 build the tuple of the top
\* two (three) values in the order they were pushed, deepest first.
C9_TupleInPushOrder ==
    [][ /\ (Executes(TUPLE2) /\ status' = "running")
             => Contents(Last(stack'), heap') = SubSeq(stack, Len(stack) - 1, Len(stack))
        /\ (Executes(TUPLE3) /\ status' = "running")
             => Contents(Last(stack'), heap') = SubSeq(stack, Len(stack) - 2, Len(stack))
      ]_vars

\* C10 (as the claim states it): DICT with 2k items above the marker pops
\* them and pushes the dict of the k pairs (x1,x2), ..., (x2k-1,x2k).
C10_DictOfPairs ==
    [][ ( /\ Executes(DICT)
          /\ marker # <<>>
          /\ marker[1] <= Len(stack)
          /\ (Len(stack) - marker[1]) % 2 = 0 )
        => LET items == Suffix(stack, marker[1])
           IN  /\ status' = "running"
               /\ Front(stack') = Prefix(stack, marker[1])
               /\ Last(stack').tag = "Dict"
               /\ Contents(Last(stack'), heap') =
                    [i \in 1 .. (Len(items) \div 2) |-> << items[2 * i - 1], items[2 * i] >>]
      ]_vars

\* C11 (as the claim states it): SETITEMS with 2k items above the marker and
\* a Dict directly below them removes the items, appends (x1,x2), ...,
\* (x2k-1,x2k) after the Dict's entries and leaves the Dict on top.
C11_SetItemsAppendsPairs ==
    [][ ( /\ Executes(SETITEMS)
          /\ marker # <<>>
          /\ marker[1] >= 1
          /\ marker[1] <= Len(stack)
          /\ stack[marker[1]].tag = "Dict"
          /\ (Len(stack) - marker[1]) % 2 = 0 )
        => LET items == Suffix(stack, marker[1])
               dict == stack[marker[1]]
           IN  /\ status' = "running"
               /\ stack' = Prefix(stack, marker[1])
               /\ Contents(dict, heap') =
                    Contents(dict, heap) \o
                    [i \in 1 .. (Len(items) \div 2) |-> << items[2 * i - 1], items[2 * i] >>]
      ]_vars

\* C12: a List receives values in stream order: APPEND puts the popped value
\* after the elements the List has, APPENDS puts the items above the marker
\* after them in the order they were pushed, and LIST makes the list of the
\* items above the marker in that order.
C12_ListInStreamOrder ==
    [][ /\ (Executes(APPEND) /\ status' = "running")
             => /\ stack' = Front(stack)
                /\ Last(stack').tag = "List"
                /\ Contents(Last(stack'), heap') =
                     Append(Contents(Last(stack'), heap), Last(stack))
        /\ (Executes(APPENDS) /\ status' = "running")
             => /\ stack' = Prefix(stack, marker[1])
                /\ Last(stack').tag = "List"
                /\ Contents(Last(stack'), heap') =
                     Contents(Last(stack'), heap) \o Suffix(stack, marker[1])
        /\ (Executes(LIST) /\ status' = "running")
             => /\ Front(stack') = Prefix(stack, marker[1])
                /\ Last(stack').tag = "List"
                /\ Contents(Last(stack'), heap') = Suffix(stack, marker[1])
      ]_vars

\* C12 witness: a list that got None and then True by two APPENDs holds them
\* in that order.
C12_Witness ==
    /\ status = "running"
    /\ opcode = APPEND
    /\ stack # <<>>
    /\ Last(stack).tag = "List"
    /\ Contents(Last(stack), heap) = << VNone, VBool(TRUE) >>

MarkerOpcodes == { APPENDS, LIST, TUPLE, DICT, SETITEMS, POP_MARK }

\* C13: APPENDS, LIST, TUPLE, DICT, SETITEMS and POP_MARK return EmptyMarker
\* when no MARK has been executed (the marker is unset until a MARK), return
\* StackTooSmall when the marker exceeds the stack length, and otherwise take
\* exactly the values above the marker off the stack: the values below it
\* stay as they were, with the one value LIST, TUPLE and DICT build on top.
C13_MarkerSplit ==
    [][ /\ \A op \in MarkerOpcodes :
             Executes(op)
             => IF marker = <<>>
                THEN /\ status' = "error"
                     /\ error'.kind = "EmptyMarker"
                     /\ stack' = stack
                ELSE IF marker[1] > Len(stack)
                THEN /\ status' = "error"
                     /\ error'.kind = "StackTooSmall"
                     /\ stack' = stack
                ELSE /\ error'.kind \notin { "EmptyMarker", "StackTooSmall" }
                     /\ Len(stack') >= marker[1]
                     /\ SubSeq(stack', 1, marker[1]) = Prefix(stack, marker[1])
                     /\ Len(stack') =
                          IF op \in { LIST, TUPLE, DICT } /\ status' = "running"
                          THEN marker[1] + 1 ELSE marker[1]
        /\ (marker = <<>> /\ opcode' # MARK) => marker' = <<>>
      ]_vars

\* C13 witness: a marker-consuming opcode found the marker above the stack
\* length and returned StackTooSmall.
C13_Witness ==
    /\ status = "error"
    /\ error.kind = "StackTooSmall"
    /\ opcode \in MarkerOpcodes
    /\ marker # <<>>
    /\ marker[1] > Len(stack)

\* C14: a marker-consuming opcode leaves the marker as it is; the marker
\* changes only when MARK sets it to the stack length, so a further
\* marker-consuming opcode splits the stack at the index of the latest MARK.
C14_MarkerKept ==
    [][ /\ \A op \in MarkerOpcodes : Executes(op) => marker' = marker
        /\ marker' # marker
             => /\ opcode' = MARK
                /\ marker' = << Len(stack) >>
      ]_vars

\* C14 witness: after one MARK on the empty stack, LIST ran twice: the second
\* LIST split at index 0 again and wrapped the list the first one built.
C14_Witness ==
    /\ status = "running"
    /\ opcode = LIST
    /\ fuel = MaxBuildSteps - 4
    /\ marker = << 0 >>
    /\ Len(stack) = 1
    /\ stack[1].tag = "List"
    /\ Len(Contents(stack[1], heap)) = 1
    /\ Contents(stack[1], heap)[1].tag = "List"
    /\ Len(Contents(Contents(stack[1], heap)[1], heap)) = 1
    /\ Contents(Contents(stack[1], heap)[1], heap)[1].tag = "List"

RECURSIVE DecimalOf(_)
\* The number a string of ASCII decimal digits writes.
DecimalOf(digits) ==
    IF digits = <<>> THEN 0
    ELSE 10 * DecimalOf(Front(digits)) + (Last(digits) - 48)

\* `text` is an optional sign followed by one or more decimal digits.
IsSignedDecimal(text) ==
    LET digits == IF text # <<>> /\ text[1] \in { 43, 45 } THEN Tail(text) ELSE text
    IN  digits # <<>> /\ \A i \in DOMAIN digits : digits[i] \in 48 .. 57

\* The integer a signed decimal text writes.
SignedDecimalOf(text) ==
    IF text[1] = 45 THEN 0 - DecimalOf(Tail(text))
    ELSE IF text[1] = 43 THEN DecimalOf(Tail(text))
    ELSE DecimalOf(text)

C16_TextualIndexIsPlain ==
    [][ \A op \in { GET, PUT } :
          ( /\ Executes(op)
            /\ operand' # <<>>
            /\ Last(operand') = 10
            /\ IsSignedDecimal(Front(operand'))
            /\ SignedDecimalOf(Front(operand')) >= 0 )
          => LET n == SignedDecimalOf(Front(operand'))
             IN  IF op = GET
                 THEN IF n \in DOMAIN memo
                      THEN /\ status' = "running"
                           /\ stack' = Append(stack, memo[n])
                           /\ memo' = memo
                      ELSE /\ status' = "error"
                           /\ error'.kind = "InvalidGetValue"
                 ELSE IF stack = <<>>
                      THEN /\ status' = "error"
                           /\ error'.kind = "EmptyStack"
                      ELSE /\ status' = "running"
                           /\ stack' = stack
                           /\ DOMAIN memo' = DOMAIN memo \cup { n }
                           /\ memo'[n] = Last(stack)
                           /\ \A k \in DOMAIN memo : k # n => memo'[k] = memo[k]
      ]_vars

\* C16 witness: GET with the operand "01" pushed the entry of slot 1 while
\* slot 0 had none.
C16_Witness ==
    /\ status = "running"
    /\ opcode = GET
    /\ operand = << 48, 49, 10 >>
    /\ DOMAIN memo = { 1 }
    /\ Len(stack) >= 2
    /\ Last(stack) = memo[1]

\* C17: PROTO with a version byte v below 2 returns InvalidProto(v); with v
\* at least 2 the step succeeds without halting; either way stack, memo,
\* marker and the shared cells stay as they are, in every machine state.
C17_Proto ==
    [][ (Executes(PROTO) /\ operand' # <<>>)
        => LET v == operand'[1]
           IN  /\ UNCHANGED << stack, memo, marker, heap >>
               /\ IF v < 2
                  THEN /\ status' = "error"
                       /\ error' = [kind |-> "InvalidProto", arg |-> v, cause |-> ""]
                  ELSE /\ status' = "running"
                       /\ error' = NoError
      ]_vars

\* C17 witness: PROTO 2 succeeded in the middle of a stream, with a value on
\* the stack and the marker set.
C17_Witness ==
    /\ status = "running"
    /\ opcode = PROTO
    /\ operand = << 2 >>
    /\ stack # <<>>
    /\ marker # <<>>

\* C18: every step of a running decode reads exactly the next opcode of the
\* source (or finds the source at its end), and the first step that returns
\* an error ends the decode: that error stays the result, nothing more is
\* read and the machine is not changed again.
C18_FirstErrorEndsDecode ==
    [][ /\ status = "error" => UNCHANGED vars
        /\ status = "running"
             => \/ fuel' = fuel - 1 /\ opcode' \in Byte
                \/ opcode' = -1 /\ status' = "error" /\ error'.kind = "Read"
      ]_vars

\* C18 witness: a step returned an error with values on the stack while the
\* source still held opcodes.
C18_Witness ==
    /\ status = "error"
    /\ error.kind = "InvalidGetValue"
    /\ fuel > 0
    /\ stack # <<>>

\* The length field of a LONG1 or LONG4 operand, -1 when it is short.
LongLength(op, bytes) ==
    IF op = LONG1
    THEN IF Len(bytes) >= 1 THEN bytes[1] ELSE -1
    ELSE IF Len(bytes) >= 4 /\ bytes[3] = 0 /\ bytes[4] = 0
         THEN bytes[1] + 256 * bytes[2] ELSE -1

\* The bytes after the length field.
LongPayload(op, bytes) ==
    SubSeq(bytes, IF op = LONG1 THEN 2 ELSE 5, Len(bytes))

\* The two's-complement encoding of k in n little-endian bytes.
TwosComplement(k, n) ==
    LET u == IF k < 0 THEN k + Pow2(8 * n) ELSE k
    IN  [i \in 1 .. n |-> (u \div Pow2(8 * (i - 1))) % 256]

\* C19: LONG1 and LONG4 with a payload of N >= 1 bytes push Long(k) with k
\* the two's-complement value of the payload: k lies in
\* [-2^(8N-1), 2^(8N-1)-1], its N-byte little-endian two's-complement
\* encoding is the payload, and it is the unsigned value minus 2^(8N)
\* exactly when the last byte has its top bit set.
C19_LongTwosComplement ==
    [][ \A op \in { LONG1, LONG4 } :
          ( /\ Executes(op)
            /\ LongLength(op, operand') >= 1
            /\ Len(LongPayload(op, operand')) = LongLength(op, operand') )
          => LET n == LongLength(op, operand')
                 payload == LongPayload(op, operand')
                 k == Last(stack').n
             IN  /\ status' = "running"
                 /\ stack' = Append(stack, VLong(k))
                 /\ k >= 0 - Pow2(8 * n - 1)
                 /\ k <= Pow2(8 * n - 1) - 1
                 /\ TwosComplement(k, n) = payload
                 /\ (k < 0) <=> (payload[n] >= 128)
      ]_vars

\* C19 witness: LONG4 with the two payload bytes 0x00 0x80 pushed
\* Long(-32768), the least number of two bytes.
C19_Witness ==
    /\ status = "running"
    /\ opcode = LONG4
    /\ operand = << 2, 0, 0, 0, 0, 128 >>
    /\ Last(stack) = VLong(-32768)

\* C20: LONG1 and LONG4 with a length field of 0 return InvalidLong and leave
\* the stack as it was: no Long(0) is pushed.
C20_LongOfNoBytes ==
    [][ \A op \in { LONG1, LONG4 } :
          (Executes(op) /\ LongLength(op, operand') = 0)
          => /\ status' = "error"
             /\ error'.kind = "InvalidLong"
             /\ stack' = stack
      ]_vars

\* C20 witness: LONG4 with the length 0 returned InvalidLong with a value on
\* the stack.
C20_Witness ==
    /\ status = "error"
    /\ error.kind = "InvalidLong"
    /\ opcode = LONG4
    /\ operand = << 0, 0, 0, 0 >>
    /\ stack # <<>>

TextOpcodes == { INT, LONG, FLOAT, STRING_OP, UNICODE, GET, PUT }

\* C21: INT, LONG, FLOAT, STRING, UNICODE, GET and PUT return InvalidString
\* when the source ends before a newline, changing neither stack nor memo;
\* a newline that is found is not part of the operand: UNICODE of plain
\* ASCII text pushes the text without it.
C21_NewlineTerminated ==
    [][ /\ \A op \in TextOpcodes :
             (Executes(op) /\ (operand' = <<>> \/ Last(operand') # 10))
             => /\ status' = "error"
                /\ error'.kind = "InvalidString"
                /\ stack' = stack
                /\ memo' = memo
        /\ ( /\ Executes(UNICODE)
             /\ operand' # <<>>
             /\ Last(operand') = 10
             /\ \A i \in DOMAIN operand' : operand'[i] < 128 /\ operand'[i] # 92 )
           => /\ status' = "running"
              /\ stack' = Append(stack, VUnicode(Front(operand')))
      ]_vars

\* C21 witness: FLOAT found the source at its end after "1.5" and returned
\* InvalidString, with a value on the stack.
C21_Witness ==
    /\ status = "error"
    /\ error.kind = "InvalidString"
    /\ opcode = FLOAT
    /\ operand = << 49, 46, 53 >>
    /\ stack # <<>>

\* The operand of a memo opcode writes a negative index: a negative decimal
\* number for GET and PUT, a negative 32-bit number for LONG_BINGET and
\* LONG_BINPUT.
IsNegativeIndex(op, bytes) ==
    IF op \in { GET, PUT }
    THEN /\ bytes # <<>>
         /\ Last(bytes) = 10
         /\ IsSignedDecimal(Front(bytes))
         /\ SignedDecimalOf(Front(bytes)) < 0
    ELSE Len(bytes) >= 4 /\ bytes[4] >= 128

\* C22: GET and PUT with a negative decimal operand, and LONG_BINGET and
\* LONG_BINPUT with a negative 32-bit operand, return NegativeLength; the
\* memo is not written and nothing is pushed.
C22_NegativeIndex ==
    [][ \A op \in { GET, PUT, LONG_BINGET, LONG_BINPUT } :
          (Executes(op) /\ IsNegativeIndex(op, operand'))
          => /\ status' = "error"
             /\ error'.kind = "NegativeLength"
             /\ memo' = memo
             /\ stack' = stack
      ]_vars

\* C22 witness: LONG_BINPUT of index -1 returned NegativeLength with a value
\* on the stack to store, and the memo stayed empty.
C22_Witness ==
    /\ status = "error"
    /\ error.kind = "NegativeLength"
    /\ opcode = LONG_BINPUT
    /\ operand = << 255, 255, 255, 255 >>
    /\ stack # <<>>
    /\ DOMAIN memo = {}

\* The operand of UNICODE (after unescaping) or BINUNICODE (its payload) is
\* complete and is not well-formed UTF-8.
IsInvalidText(op, bytes) ==
    IF op = UNICODE
    THEN /\ bytes # <<>>
         /\ Last(bytes) = 10
         /\ unescape(Front(bytes), TRUE).err = ""
         /\ ~IsUtf8(unescape(Front(bytes), TRUE).val)
    ELSE /\ Len(bytes) >= 4
         /\ read_i32_le(bytes).val >= 0
         /\ Len(bytes) - 4 >= read_i32_le(bytes).val
         /\ ~IsUtf8(SubSeq(bytes, 5, 4 + read_i32_le(bytes).val))

\* C23 (as the claim states it): UNICODE and BINUNICODE whose operand is not
\* valid UTF-8 return the InvalidString error kind.
C23_InvalidTextIsInvalidString ==
    (opcode \in { UNICODE, BINUNICODE } /\ IsInvalidText(opcode, operand))
    => status = "error" /\ error.kind = "InvalidString"

\* C23 (amended): UNICODE and BINUNICODE whose operand is not valid UTF-8
\* return the UnicodeError error kind and push nothing.
C23_InvalidTextIsUnicodeError ==
    [][ \A op \in { UNICODE, BINUNICODE } :
          (Executes(op) /\ IsInvalidText(op, operand'))
          => /\ status' = "error"
             /\ error'.kind = "UnicodeError"
             /\ stack' = stack
      ]_vars

\* C23 witness: UNICODE with the operand bytes e2 28 a1 returned
\* UnicodeError with a value on the stack.
C23_Witness ==
    /\ status = "error"
    /\ error.kind = "UnicodeError"
    /\ opcode = UNICODE
    /\ operand = << 226, 40, 161, 10 >>
    /\ stack # <<>>

\* The stack holds the operands of `op`: one value for APPEND, a key and a
\* value for SETITEM, a marker within the stack for APPENDS and SETITEMS.
HasOperands(op) ==
    IF op = APPEND THEN Len(stack) >= 1
    ELSE IF op = SETITEM THEN Len(stack) >= 2
    ELSE marker # <<>> /\ marker[1] <= Len(stack)

\* The stack once the operands of `op` are removed.
BelowOperands(op) ==
    IF op = APPEND THEN Front(stack)
    ELSE IF op = SETITEM THEN SubSeq(stack, 1, Len(stack) - 2)
    ELSE Prefix(stack, marker[1])

\* C24: with their operands removed, APPEND, APPENDS, SETITEM and SETITEMS
\* return EmptyStack when no value remains, and InvalidValueOnStack when the
\* value on top is not a List (APPEND, APPENDS) or not a Dict (SETITEM,
\* SETITEMS).
C24_TargetOfWrongKind ==
    [][ \A op \in { APPEND, APPENDS, SETITEM, SETITEMS } :
          (Executes(op) /\ HasOperands(op))
          => LET rest == BelowOperands(op)
                 wanted == IF op \in { APPEND, APPENDS } THEN "List" ELSE "Dict"
             IN  IF rest = <<>>
                 THEN status' = "error" /\ error'.kind = "EmptyStack"
                 ELSE Last(rest).tag # wanted
                      => status' = "error" /\ error'.kind = "InvalidValueOnStack"
      ]_vars

\* C24 witness: SETITEMS found a List below the marker and returned
\* InvalidValueOnStack.
C24_Witness ==
    /\ status = "error"
    /\ error.kind = "InvalidValueOnStack"
    /\ opcode = SETITEMS
    /\ stack # <<>>
    /\ Last(stack).tag = "List"


\* C25: STRING drops the first and the last byte of its newline-terminated
\* operand, whatever they are, unescapes what is between them in non-unicode
\* mode and pushes the bytes as a String; an operand of fewer than two bytes
\* returns InvalidString.
C25_StringDropsQuotes ==
    [][ Executes(STRING_OP)
        => LET line == read_until_newline(operand')
           IN  line.err = ""
               => IF Len(line.val) < 2
                  THEN status' = "error" /\ error'.kind = "InvalidString" /\ stack' = stack
                  ELSE LET inner == unescape(SubSeq(line.val, 2, Len(line.val) - 1), FALSE)
                       IN  IF inner.err = ""
                           THEN status' = "running"
                                /\ stack' = Append(stack, VString(inner.val))
                           ELSE status' = "error" /\ error'.kind = "UnescapeError"
                                /\ stack' = stack
      ]_vars

\* C25 witness: STRING with the operand xay\n pushed the one byte "a".
C25_Witness ==
    /\ status = "running"
    /\ opcode = STRING_OP
    /\ operand = << 120, 97, 121, 10 >>
    /\ stack = << VString(<< 97 >>) >>


\* C26: an octal escape is the longest run of one to three octal digits after
\* the backslash, and stands for the one byte min(value, 255). Stated on the
\* operands of STRING and UNICODE whose only backslash begins such an escape:
\* the bytes around the escape are kept as they are; UNICODE, which takes
\* UTF-8 only, refuses the byte when it is above 127.
C26_OctalEscape ==
    [][ \A op \in { STRING_OP, UNICODE } :
          Executes(op)
          => LET line == read_until_newline(operand')
                 s == IF op = STRING_OP
                      THEN SubSeq(line.val, 2, Len(line.val) - 1)
                      ELSE line.val
                 slashes == { i \in 1 .. Len(s) : s[i] = 92 }
                 p == CHOOSE i \in slashes : TRUE
                 IsOct(i) == i <= Len(s) /\ s[i] >= 48 /\ s[i] <= 55
                 d(i) == s[p + i] - 48
                 n == IF ~IsOct(p + 1) THEN 0
                      ELSE IF ~IsOct(p + 2) THEN 1
                      ELSE IF ~IsOct(p + 3) THEN 2
                      ELSE 3
                 value == IF n = 1 THEN d(1)
                          ELSE IF n = 2 THEN 8 * d(1) + d(2)
                          ELSE 64 * d(1) + 8 * d(2) + d(3)
                 byte == IF value < 255 THEN value ELSE 255
                 out == SubSeq(s, 1, p - 1) \o << byte >> \o SubSeq(s, p + n + 1, Len(s))
             IN  (/\ line.err = ""
                  /\ op = STRING_OP => Len(line.val) >= 2
                  /\ Cardinality(slashes) = 1
                  /\ n > 0)
                 => IF op = UNICODE /\ byte > 127
                    THEN status' = "error" /\ error'.kind = "UnicodeError"
                    ELSE /\ status' = "running"
                         /\ stack' = Append(stack, IF op = STRING_OP THEN VString(out)
                                                   ELSE VUnicode(out))
      ]_vars

\* C26 witness: STRING with the operand '\7777'\n pushed the byte 0xFF for
\* \777 and the fourth '7' after it.
C26_Witness ==
    /\ status = "running"
    /\ opcode = STRING_OP
    /\ operand = << 39, 92, 55, 55, 55, 55, 39, 10 >>
    /\ stack = << VString(<< 255, 55 >>) >>



\* The markers unescape recognises after a backslash: newline, \, ', ",
\* a b f n r t v, x and the octal digits; in unicode mode also u, U and N.
RecognisedMarkers(unicode) ==
    { 10, 92, 39, 34, 97, 98, 102, 110, 114, 116, 118, 120 } \cup (48 .. 55)
      \cup (IF unicode THEN { 117, 85, 78 } ELSE {})

\* C27: a backslash followed by a byte that is no recognised escape passes
\* through as those two bytes; u, U and N are not recognised in non-unicode
\* mode and are decoded in unicode mode. Stated on the operands of STRING
\* (non-unicode mode) and UNICODE (unicode mode) that hold one backslash:
\* followed by a byte not recognised in the opcode's mode, the value pushed
\* is the operand's text unchanged; in a UNICODE operand, followed by u and
\* four or U and eight hex digits of a scalar, the escape becomes the UTF-8
\* of that scalar, and N{SNOWMAN} becomes the UTF-8 of U+2603.
C27_UnknownEscapePassesThrough ==
    [][ \A op \in { STRING_OP, UNICODE } :
          Executes(op)
          => LET line == read_until_newline(operand')
                 s == IF op = STRING_OP
                      THEN SubSeq(line.val, 2, Len(line.val) - 1)
                      ELSE line.val
                 slashes == { i \in 1 .. Len(s) : s[i] = 92 }
                 p == CHOOSE i \in slashes : TRUE
                 width == IF s[p + 1] = 117 THEN 4 ELSE 8
                 hex == SubSeq(s, p + 2, p + 1 + width)
                 IsHex(c) == c \in (48 .. 57) \cup (97 .. 102) \cup (65 .. 70)
                 snowman == << 123, 83, 78, 79, 87, 77, 65, 78, 125 >>
                 Around(n, bytes) ==
                     SubSeq(s, 1, p - 1) \o bytes \o SubSeq(s, p + n + 1, Len(s))
                 Pushes(v) == status' = "running" /\ stack' = Append(stack, v)
             IN  (/\ line.err = ""
                  /\ op = STRING_OP => Len(line.val) >= 2
                  /\ Cardinality(slashes) = 1
                  /\ p < Len(s))
                 => /\ s[p + 1] \notin RecognisedMarkers(op = UNICODE)
                       => Pushes(IF op = STRING_OP THEN VString(s) ELSE VUnicode(s))
                    /\ (/\ op = UNICODE
                        /\ s[p + 1] \in { 117, 85 }
                        /\ Len(s) >= p + 1 + width
                        /\ \A i \in 1 .. width : IsHex(hex[i])
                        /\ IsScalar(RadixValue(hex, 16, 0)))
                       => Pushes(VUnicode(Around(1 + width,
                                                 Utf8(RadixValue(hex, 16, 0)))))
                    /\ (/\ op = UNICODE
                        /\ s[p + 1] = 78
                        /\ Len(s) >= p + 10
                        /\ SubSeq(s, p + 2, p + 10) = snowman)
                       => Pushes(VUnicode(Around(10, << 226, 152, 131 >>)))
      ]_vars

\* C27 witness: STRING with an operand of f, a backslash, u2663 and oo
\* between its quotes pushed those nine bytes as they are.
C27_Witness ==
    /\ status = "running"
    /\ opcode = STRING_OP
    /\ operand = << 39, 102, 92, 117, 50, 54, 54, 51, 111, 111, 39, 10 >>
    /\ stack = << VString(<< 102, 92, 117, 50, 54, 54, 51, 111, 111 >>) >>


\* C28: LONG removes at most one trailing 'L' from its newline-terminated
\* operand and parses what remains as a decimal integer: with or without
\* the 'L' the integer is pushed as a Long, and an empty operand, an operand
\* that is only "L" and one whose remainder is not a decimal integer (a
\* second 'L' included) return InvalidLong and push nothing.
C28_LongDecimal ==
    [][ Executes(LONG)
        => LET line == read_until_newline(operand')
               body == IF line.val # <<>> /\ Last(line.val) = 76
                       THEN Front(line.val)
                       ELSE line.val
               negative == body # <<>> /\ Head(body) = 45
               digits == IF negative THEN Tail(body) ELSE body
               value == IF negative THEN 0 - DigitsValue(digits, 0)
                        ELSE DigitsValue(digits, 0)
           IN  line.err = ""
               => IF digits # <<>> /\ AllDigits(digits)
                  THEN status' = "running" /\ stack' = Append(stack, VLong(value))
                  ELSE status' = "error" /\ error'.kind = "InvalidLong" /\ stack' = stack
      ]_vars

\* C28 witness: LONG with the operand 1LL\n, whose remainder after one 'L'
\* is removed is 1L, returned InvalidLong below a value pushed before.
C28_Witness ==
    /\ status = "error"
    /\ error.kind = "InvalidLong"
    /\ opcode = LONG
    /\ operand = << 49, 76, 76, 10 >>
    /\ stack # <<>>


\* C29: STOP halts the machine. The step that executes STOP changes nothing
\* of the machine and ends the loop; from then on no opcode and no operand
\* is read, whatever the source still holds, and the only step left returns
\* the result, which the stack at STOP alone decides.
C29_StopHalts ==
    [][ /\ Executes(STOP)
           => /\ status' = "halted"
              /\ UNCHANGED << stack, memo, marker, heap, result, error >>
        /\ status \in { "halted", "done" }
           => /\ status' \in { "done", "error" }
              /\ UNCHANGED << opcode, operand, fuel, memo, marker, heap >>
        /\ (status = "halted" /\ stack # <<>>)
           => /\ status' = "done"
              /\ result' = << Last(stack) >>
      ]_vars

\* C29 witness: a value was returned after STOP while the source still held
\* bytes, none of which was read.
C29_Witness ==
    /\ status = "done"
    /\ opcode = STOP
    /\ fuel > 0
    /\ Len(result) = 1


\* C30: decode terminates on every finite source. A step of the loop either
\* moves on in the source by at least the opcode byte or returns an error;
\* an opcode read at the end of the source returns a Read error; hence every
\* run of the loop comes to an end: a value, an error or an abort.
C30_Terminates ==
    /\ [][ status = "running" => (fuel' < fuel \/ status' = "error") ]_vars
    /\ [][ (status = "running" /\ fuel = 0)
           => (status' = "error" /\ error'.kind = "Read") ]_vars
    /\ <>(status \in { "done", "error", "panic" })

\* C30 witness: a source that ended before any STOP, with a value on the
\* stack, ended in the Read error.
C30_Witness ==
    /\ status = "error"
    /\ error.kind = "Read"
    /\ opcode = -1
    /\ fuel = 0
    /\ stack # <<>>


\* C31: the machine has one marker and no stack of marks. MARK sets the
\* marker to the stack's length whatever it was before; the opcodes that
\* consume the marker leave it as it is, so an outer construct after an inner
\* one splits at the inner MARK's index: LIST and TUPLE take the values above
\* that index only, and what lies below it, the items pushed between the two
\* MARKs included, stays on the stack below the new container.
C31_SingleMarker ==
    [][ /\ Executes(MARK) => marker' = << Len(stack) >>
        /\ \A op \in MarkerOpcodes : Executes(op) => marker' = marker
        /\ \A op \in { LIST, TUPLE } :
             (Executes(op) /\ marker # <<>> /\ marker[1] <= Len(stack))
             => /\ status' = "running"
                /\ Len(stack') = marker[1] + 1
                /\ Prefix(stack', marker[1]) = Prefix(stack, marker[1])
                /\ Last(stack').tag = (IF op = LIST THEN "List" ELSE "Tuple")
                /\ Contents(Last(stack'), heap') = Suffix(stack, marker[1])
      ]_vars

\* C31 witness: after MARK, NONE, MARK, an inner tuple (TUPLE or EMPTY_TUPLE)
\* and the outer TUPLE, the outer tuple holds the inner one only and the
\* None pushed after the first MARK is left on the stack, the marker still
\* being the second MARK's index.
C31_Witness ==
    /\ status = "running"
    /\ opcode = TUPLE
    /\ fuel = MaxBuildSteps - 5
    /\ marker = << 1 >>
    /\ stack = << VNone, VTuple(2) >>
    /\ heap = << <<>>, << VTuple(1) >> >>


\* C32: the frame of the machine's state. A step that changes the memo
\* executes PUT, BINPUT or LONG_BINPUT, and these leave the stack and the
\* marker as they were; a step that changes the marker executes MARK, which
\* leaves the stack and the memo as they were; no step removes a memo entry.
C32_Frame ==
    [][ /\ memo' # memo => opcode' \in PutFamily
        /\ \A op \in PutFamily : Executes(op) => stack' = stack /\ marker' = marker
        /\ marker' # marker => opcode' = MARK
        /\ Executes(MARK) => stack' = stack /\ memo' = memo
        /\ DOMAIN memo \subseteq DOMAIN memo'
      ]_vars

\* C32 witness: a PUT-family opcode wrote the memo below a marker set
\* before, the stack and the marker being those MARK left.
C32_Witness ==
    /\ status = "running"
    /\ opcode \in PutFamily
    /\ DOMAIN memo # {}
    /\ marker = << 1 >>
    /\ Len(stack) = 1


\* The error kinds returned before the opcode has changed anything.
RefusedKinds ==
    { "EmptyMarker", "StackTooSmall", "InvalidGetValue", "NegativeLength",
      "InvalidProto", "UnknownOpcode" }

\* C33: a step that returns EmptyMarker, StackTooSmall, InvalidGetValue,
\* NegativeLength, InvalidProto or UnknownOpcode, or EmptyStack from PUT,
\* BINPUT, LONG_BINPUT or DUP, leaves the stack, the memo and the marker
\* exactly as they were before the opcode.
C33_RefusedStepChangesNothing ==
    [][ (/\ status = "running"
         /\ status' = "error"
         /\ \/ error'.kind \in RefusedKinds
            \/ error'.kind = "EmptyStack" /\ opcode' \in PutFamily \cup { DUP })
        => UNCHANGED << stack, memo, marker >>
      ]_vars

\* C33 witness: POP_MARK or LIST returned StackTooSmall, the marker lying
\* above a stack that still holds a value.
C33_Witness ==
    /\ status = "error"
    /\ error.kind = "StackTooSmall"
    /\ opcode \in MarkerOpcodes
    /\ stack # <<>>
    /\ marker # <<>>
    /\ marker[1] > Len(stack)


=============================================================================
